---- MODULE Spec2Model ----
(***************************************************************************)
(* Symbolic shape analysis (torch/csrc/jit/passes/symbolic_shape_analysis  *)
(* .cpp): the shape-function registry behind one mutex, the propagation    *)
(* pass over a graph, and the SymbolicShapeAnalyzer that partially         *)
(* evaluates a private copy of an operator's shape compute graph.          *)
(*                                                                         *)
(* A shape compute graph is kept as the expression tree of each of its     *)
(* outputs (a Value is the tree of the Node that produces it), plus the    *)
(* list of further consumers of the first output.  Values are tagged       *)
(* tuples whose first element is the kind of the producing node.           *)
(***************************************************************************)
EXTENDS Integers, Sequences, FiniteSets, TLC

\* ------------------------------------------------------------------ bounds
\* Largest tensor rank of an analysed input.
MaxRank == 2
\* Largest extent of a dimension (and largest value of an int argument).
MaxDim == 2
\* Threads calling the two entry points concurrently.
NumThreads == 2

\* ------------------------------------------------------- c10::optional<T>
None == <<>>
Some(v) == <<v>>
HasValue(o) == o # None
ValueOf(o) == o[1]

\* ------------------------------------------------------ c10::SymbolicShape
\* optional<vector<ShapeSymbol>>: None is "rank unknown"; a dimension is
\* Some(size) when static and None when it is only a symbol.
UnrankedShape == None
RankedShape(dims) == Some(dims)
rank(shape) == IF HasValue(shape) THEN Some(Len(ValueOf(shape))) ELSE None
is_static(sym) == HasValue(sym)
static_size(sym) == ValueOf(sym)
isComplete(shape) ==
    /\ HasValue(shape)
    /\ \A j \in 1..Len(ValueOf(shape)) : is_static(ValueOf(shape)[j])
\* sizes().concrete_sizes() of a complete shape
concrete_sizes(shape) ==
    [j \in 1..Len(ValueOf(shape)) |-> static_size(ValueOf(shape)[j])]
\* SymbolicShape(const std::vector<int64_t>&)
ShapeOfIntList(s) == RankedShape([j \in 1..Len(s) |-> Some(s[j])])

\* ------------------------------------------------------------ IR values
\* a graph input typed List[int] (a tensor's sizes) / typed int
ParamList(i) == <<"ParamList", i>>
ParamInt(i) == <<"ParamInt", i>>
Constant(v) == <<"Constant", v>>
ConstantList(s) == <<"ConstantList", s>>
LenOf(l) == <<"len", l>>
GetItem(l, idx) == <<"__getitem__", l, idx>>
Add(a, b) == <<"add", a, b>>
ListConstruct(es) == <<"ListConstruct", es>>
Slice(l, start) == <<"slice", l, start>>
ListAppend(l, e) == <<"append", l, e>>
Loop(n, init, step) == <<"Loop", n, init, step>>
TupleConstruct(es) == <<"TupleConstruct", es>>
TupleIndex(t, k) == <<"TupleIndex", t, k>>

kind(e) == e[1]
\* node()->kind() == prim::Constant
IsConstant(e) == kind(e) \in {"Constant", "ConstantList"}
\* constant_as<int64_t>(v)
constant_as_int(e) == IF kind(e) = "Constant" THEN Some(e[2]) ELSE None
\* the static type of a value is List[int]
IsIntListTyped(e) ==
    kind(e) \in {"ConstantList", "ListConstruct", "slice", "append", "ParamList"}


\* A Graph: its outputs, and the consumers of outputs[1] besides the return
\* node: "print" (a side effect), "len" (pure, its result unused) or
\* "mutate" (a write to the list inside a nested block).
Graph(outs, users) == [outputs |-> outs, users |-> users]
\* Value::uses().size() of the first output
NumUses(g) == 1 + Len(g.users)

\* rebuild a node with F applied to each input value
MapChildren(e, F(_)) ==
    CASE kind(e) \in {"ParamList", "ParamInt", "Constant", "ConstantList"} -> e
      [] kind(e) = "len" -> <<kind(e), F(e[2])>>
      [] kind(e) \in {"__getitem__", "add", "append"} ->
            <<kind(e), F(e[2]), F(e[3])>>
      [] kind(e) \in {"slice", "TupleIndex"} -> <<kind(e), F(e[2]), e[3]>>
      [] kind(e) \in {"ListConstruct", "TupleConstruct"} ->
            <<kind(e), [j \in 1..Len(e[2]) |-> F(e[2][j])]>>
      [] kind(e) = "Loop" -> <<kind(e), F(e[2]), F(e[3]), F(e[4])>>

MapOutputs(g, F(_)) ==
    [g EXCEPT !.outputs = [j \in 1..Len(g.outputs) |-> F(g.outputs[j])]]

\* ---------------------------------------------------------------- normIndex
\* (mutation) a negative index is moved one place too few
normIndexOffByOne(index, len) ==
    LET idx == IF index < 0 THEN index + len - 1 ELSE index
    IN  IF idx >= 0 /\ idx < len THEN Some(idx) ELSE None
\* (mutation) a negative index is not counted from the end
normIndexNoWrap(index, len) ==
    IF index >= 0 /\ index < len THEN Some(index) ELSE None

normIndex(index, len) ==
    LET idx == IF index < 0 THEN index + len ELSE index
    IN  IF idx >= 0 /\ idx < len THEN Some(idx) ELSE None

\* ------------------------------------------ run-time meaning of a program
\* The value of e on the run-time inputs env (env[i] is the i-th input: the
\* sizes of a tensor, or an int); None when the program raises.
RECURSIVE LoopValue(_, _, _)
LoopValue(n, acc, step) ==
    IF n <= 0 THEN acc ELSE LoopValue(n - 1, acc + step, step)

\* list[i] as the interpreter computes it: positions count from the end
\* when i is negative, and a position outside the list raises
ListItem(list, i) ==
    IF i >= 0 - Len(list) /\ i < Len(list)
    THEN Some(list[(i % Len(list)) + 1]) ELSE None

RECURSIVE Eval(_, _)
Eval(e, env) ==
    CASE kind(e) \in {"ParamList", "ParamInt"} -> Some(env[e[2]])
      [] kind(e) \in {"Constant", "ConstantList"} -> Some(e[2])
      [] kind(e) = "len" ->
            LET l == Eval(e[2], env)
            IN  IF HasValue(l) THEN Some(Len(ValueOf(l))) ELSE None
      [] kind(e) = "__getitem__" ->
            LET l == Eval(e[2], env)
                i == Eval(e[3], env)
            IN  IF HasValue(l) /\ HasValue(i)
                THEN ListItem(ValueOf(l), ValueOf(i))
                ELSE None
      [] kind(e) = "add" ->
            LET a == Eval(e[2], env)
                b == Eval(e[3], env)
            IN  IF HasValue(a) /\ HasValue(b)
                THEN Some(ValueOf(a) + ValueOf(b)) ELSE None
      [] kind(e) \in {"ListConstruct", "TupleConstruct"} ->
            LET vs == [j \in 1..Len(e[2]) |-> Eval(e[2][j], env)]
            IN  IF \A j \in 1..Len(vs) : HasValue(vs[j])
                THEN Some([j \in 1..Len(vs) |-> ValueOf(vs[j])]) ELSE None
      [] kind(e) = "slice" ->
            LET l == Eval(e[2], env)
            IN  IF HasValue(l)
                THEN Some(SubSeq(ValueOf(l), e[3] + 1, Len(ValueOf(l))))
                ELSE None
      [] kind(e) = "append" ->
            LET l == Eval(e[2], env)
                x == Eval(e[3], env)
            IN  IF HasValue(l) /\ HasValue(x)
                THEN Some(ValueOf(l) \o <<ValueOf(x)>>) ELSE None
      [] kind(e) = "TupleIndex" ->
            LET t == Eval(e[2], env)
            IN  IF HasValue(t) THEN Some(ValueOf(t)[e[3] + 1]) ELSE None
      [] kind(e) = "Loop" ->
            LET n == Eval(e[2], env)
                a == Eval(e[3], env)
                s == Eval(e[4], env)
            IN  IF HasValue(n) /\ HasValue(a) /\ HasValue(s)
                THEN Some(LoopValue(ValueOf(n), ValueOf(a), ValueOf(s)))
                ELSE None

\* The list a graph returns: its first output after the writes of the
\* "mutate" consumers (each appends the element 1).
EvalGraph(g, env) ==
    LET v == Eval(g.outputs[1], env)
        extra == [j \in 1..Cardinality({u \in 1..Len(g.users) :
                                           g.users[u] = "mutate"}) |-> 1]
    IN  IF HasValue(v) THEN Some(ValueOf(v) \o extra) ELSE None

\* ------------------------------------------------- the simplification passes
\* The passes run by SymbolicShapeAnalyzer::run live in other files; each is
\* modelled by its net effect on this IR, and none changes what a program
\* computes.

\* RemoveListMutation: an append to a list built in the same block becomes a
\* longer ListConstruct.
RECURSIVE RemoveListMutationIn(_)
RemoveListMutationIn(e) ==
    LET n == MapChildren(e, RemoveListMutationIn)
    IN  IF kind(n) = "append" /\ kind(n[2]) = "ListConstruct"
        THEN ListConstruct(n[2][2] \o <<n[3]>>)
        ELSE n
RemoveListMutation(g) == MapOutputs(g, RemoveListMutationIn)

\* LowerSimpleTuples: an index into a tuple built in the graph is the element.
RECURSIVE LowerSimpleTuplesIn(_)
LowerSimpleTuplesIn(e) ==
    LET n == MapChildren(e, LowerSimpleTuplesIn)
    IN  IF kind(n) = "TupleIndex" /\ kind(n[2]) = "TupleConstruct"
        THEN n[2][2][n[3] + 1]
        ELSE n
LowerSimpleTuples(g) == MapOutputs(g, LowerSimpleTuplesIn)

\* UnrollConstantLoops: a loop whose trip count is a constant becomes its
\* body repeated that many times.
RECURSIVE UnrolledBody(_, _, _)
UnrolledBody(n, acc, step) ==
    IF n <= 0 THEN acc ELSE UnrolledBody(n - 1, Add(acc, step), step)
RECURSIVE UnrollConstantLoopsIn(_)
UnrollConstantLoopsIn(e) ==
    LET n == MapChildren(e, UnrollConstantLoopsIn)
    IN  IF kind(n) = "Loop" /\ kind(n[2]) = "Constant"
        THEN UnrolledBody(n[2][2], n[3], n[4])
        ELSE n
UnrollConstantLoops(g) == MapOutputs(g, UnrollConstantLoopsIn)

\* ConstantPropagation: a pure node whose inputs are all constants, and
\* which runs without raising, becomes its value.  A list that a consumer
\* writes to is never folded.
FoldNode(n) ==
    CASE kind(n) = "len" /\ IsConstant(n[2]) -> Constant(Len(n[2][2]))
      [] kind(n) = "add" /\ IsConstant(n[2]) /\ IsConstant(n[3]) ->
            Constant(n[2][2] + n[3][2])
      [] kind(n) = "__getitem__" /\ IsConstant(n[2]) /\ IsConstant(n[3]) ->
            LET v == ListItem(n[2][2], n[3][2])
            IN  IF HasValue(v) THEN Constant(ValueOf(v)) ELSE n
      [] kind(n) = "slice" /\ IsConstant(n[2]) ->
            ConstantList(SubSeq(n[2][2], n[3] + 1, Len(n[2][2])))
      [] kind(n) = "ListConstruct"
            /\ \A j \in 1..Len(n[2]) : IsConstant(n[2][j]) ->
            ConstantList([j \in 1..Len(n[2]) |-> n[2][j][2]])
      [] OTHER -> n
RECURSIVE ConstantPropagationIn(_)
ConstantPropagationIn(e) ==
    IF kind(e) = "append"
    THEN ListAppend(MapChildren(e[2], ConstantPropagationIn),
                    ConstantPropagationIn(e[3]))
    ELSE FoldNode(MapChildren(e, ConstantPropagationIn))
ConstantPropagation(g) ==
    LET written == \E u \in 1..Len(g.users) : g.users[u] = "mutate"
    IN  [g EXCEPT !.outputs = [j \in 1..Len(g.outputs) |->
            IF j = 1 /\ written
            THEN MapChildren(g.outputs[j], ConstantPropagationIn)
            ELSE ConstantPropagationIn(g.outputs[j])]]

\* PeepholeOptimize, the list idioms: len of a ListConstruct is its number of
\* elements, and a constant in-range index into a ListConstruct is the
\* element.
RECURSIVE PeepholeOptimizeIn(_)
PeepholeOptimizeIn(e) ==
    LET n == MapChildren(e, PeepholeOptimizeIn)
    IN  CASE kind(n) = "len" /\ kind(n[2]) = "ListConstruct" ->
                Constant(Len(n[2][2]))
          [] kind(n) = "__getitem__" /\ kind(n[2]) = "ListConstruct"
                /\ kind(n[3]) = "Constant" ->
                LET v == ListItem(n[2][2], n[3][2])
                IN  IF HasValue(v) THEN ValueOf(v) ELSE n
          [] OTHER -> n
PeepholeOptimize(g) == MapOutputs(g, PeepholeOptimizeIn)

\* ConstantPooling merges equal constant nodes; a constant here is a value,
\* not a node, so equal constants are already one.
ConstantPooling(g) == g

\* EliminateDeadCode: a pure consumer whose result nobody uses is removed.
EliminateDeadCode(g) ==
    [g EXCEPT !.users = SelectSeq(g.users, LAMBDA u : u # "len")]

\* ------------------------------------------------------ the analysed node
\* A node input: a Tensor with its symbolic_sizes(), a List[Tensor], or any
\* other value with what toIValue() gives for it.
TensorInput(shape) == [type |-> "Tensor", shape |-> shape, ival |-> None]
TensorListInput == [type |-> "TensorList", shape |-> None, ival |-> None]
OtherInput(ival) == [type |-> "Other", shape |-> None, ival |-> ival]

\* graph_->inputs().at(i): the graph input aligned with node input i
GraphInput(inp, i) == IF inp.type = "Other" THEN ParamInt(i) ELSE ParamList(i)

\* ------------------------------------------------------- replaceWithIValue
RECURSIVE replaceAllUsesWith(_, _, _)
replaceAllUsesWith(e, v, c) ==
    IF e = v THEN c ELSE MapChildren(e, LAMBDA ch : replaceAllUsesWith(ch, v, c))
replaceWithIValue(g, v, c) ==
    MapOutputs(g, LAMBDA e : replaceAllUsesWith(e, v, c))

\* ---------------------------------- SymbolicShapeAnalyzer::SymbolicShapeAnalyzer
\* The state of the constructor's loop: the private graph, the tracked
\* indices, and whether TORCH_INTERNAL_ASSERT(false) was reached.
\* (mutation) only tensors of complete shape become constants; a known
\* non-tensor value is left symbolic
RECURSIVE ConstructorLoopTensorsOnly(_, _, _)
ConstructorLoopTensorsOnly(inputs, i, st) ==
    IF i > Len(inputs) \/ st.fatal THEN st
    ELSE LET inp == inputs[i]
             next ==
               CASE inp.type = "Tensor" ->
                      IF isComplete(inp.shape)
                      THEN [st EXCEPT !.graph = replaceWithIValue(st.graph,
                              GraphInput(inp, i),
                              ConstantList(concrete_sizes(inp.shape)))]
                      ELSE IF HasValue(rank(inp.shape))
                      THEN [st EXCEPT !.indices = Append(st.indices, i)]
                      ELSE st
                 [] inp.type = "TensorList" -> [st EXCEPT !.fatal = TRUE]
                 [] OTHER -> st
         IN  ConstructorLoopTensorsOnly(inputs, i + 1, next)

\* (mutation) a List[Tensor] input is treated like any other non-tensor
RECURSIVE ConstructorLoopNoAssert(_, _, _)
ConstructorLoopNoAssert(inputs, i, st) ==
    IF i > Len(inputs) \/ st.fatal THEN st
    ELSE LET inp == inputs[i]
             next ==
               CASE inp.type = "Tensor" ->
                      IF isComplete(inp.shape)
                      THEN [st EXCEPT !.graph = replaceWithIValue(st.graph,
                              GraphInput(inp, i),
                              ConstantList(concrete_sizes(inp.shape)))]
                      ELSE IF HasValue(rank(inp.shape))
                      THEN [st EXCEPT !.indices = Append(st.indices, i)]
                      ELSE st
                 [] OTHER ->
                      IF HasValue(inp.ival)
                      THEN [st EXCEPT !.graph = replaceWithIValue(st.graph,
                              GraphInput(inp, i), Constant(ValueOf(inp.ival)))]
                      ELSE st
         IN  ConstructorLoopNoAssert(inputs, i + 1, next)

RECURSIVE ConstructorLoop(_, _, _)
ConstructorLoop(inputs, i, st) ==
    IF i > Len(inputs) \/ st.fatal THEN st
    ELSE LET inp == inputs[i]
             next ==
               CASE inp.type = "Tensor" ->
                      IF isComplete(inp.shape)
                      THEN [st EXCEPT !.graph = replaceWithIValue(st.graph,
                              GraphInput(inp, i),
                              ConstantList(concrete_sizes(inp.shape)))]
                      ELSE IF HasValue(rank(inp.shape))
                      THEN [st EXCEPT !.indices = Append(st.indices, i)]
                      ELSE st
                 [] inp.type = "TensorList" -> [st EXCEPT !.fatal = TRUE]
                 [] OTHER ->
                      IF HasValue(inp.ival)
                      THEN [st EXCEPT !.graph = replaceWithIValue(st.graph,
                              GraphInput(inp, i), Constant(ValueOf(inp.ival)))]
                      ELSE st
         IN  ConstructorLoop(inputs, i + 1, next)
SymbolicShapeAnalyzer(inputs, copied) ==
    ConstructorLoop(inputs, 1, [graph |-> copied, indices |-> <<>>, fatal |-> FALSE])

\* -------------------------------------------------- substituteTensorProperties
\* What one use of the tracked graph input v becomes.
SubstituteUse(n, v, shape) ==
    CASE kind(n) = "len" /\ n[2] = v -> Constant(ValueOf(rank(shape)))
      [] kind(n) = "__getitem__" /\ n[2] = v ->
            LET index == constant_as_int(n[3])
            IN  IF HasValue(index)
                THEN LET norm_index == normIndex(ValueOf(index), ValueOf(rank(shape)))
                     IN  IF HasValue(norm_index)
                            /\ is_static(ValueOf(shape)[ValueOf(norm_index) + 1])
                         THEN Constant(static_size(
                                  ValueOf(shape)[ValueOf(norm_index) + 1]))
                         ELSE n
                ELSE n
      [] OTHER -> n
RECURSIVE SubstituteUses(_, _, _)
SubstituteUses(e, v, shape) ==
    LET n == SubstituteUse(e, v, shape)
    IN  IF n # e THEN n
        ELSE MapChildren(e, LAMBDA ch : SubstituteUses(ch, v, shape))
substituteTensorProperties(g, inputs, index) ==
    LET shape == inputs[index].shape
    IN  IF ~HasValue(rank(shape)) THEN g
        ELSE MapOutputs(g, LAMBDA e :
                 SubstituteUses(e, GraphInput(inputs[index], index), shape))

RECURSIVE SubstituteFrom(_, _, _, _)
SubstituteFrom(g, inputs, indices, k) ==
    IF k > Len(indices) THEN g
    ELSE SubstituteFrom(substituteTensorProperties(g, inputs, indices[k]),
                        inputs, indices, k + 1)
substituteInputTensorProperties(g, inputs, indices) ==
    SubstituteFrom(g, inputs, indices, 1)

\* ------------------------------------------------------------------- run
num_optimization_iters == 6
\* (mutation) the peephole pass before the first constant propagation
IterationPassesPeepholeFirst ==
    <<"LowerSimpleTuples", "RemoveListMutation", "UnrollConstantLoops",
      "PeepholeOptimize", "ConstantPropagation", "ConstantPropagation">>
\* the passes of one iteration of run's loop, after the substitution
IterationPasses ==
    <<"LowerSimpleTuples", "RemoveListMutation", "UnrollConstantLoops",
      "ConstantPropagation", "PeepholeOptimize", "ConstantPropagation">>
\* the passes after the loop
FinalPasses == <<"ConstantPooling", "EliminateDeadCode">>
ApplyPass(name, g) ==
    CASE name = "LowerSimpleTuples" -> LowerSimpleTuples(g)
      [] name = "RemoveListMutation" -> RemoveListMutation(g)
      [] name = "UnrollConstantLoops" -> UnrollConstantLoops(g)
      [] name = "ConstantPropagation" -> ConstantPropagation(g)
      [] name = "PeepholeOptimize" -> PeepholeOptimize(g)
      [] name = "ConstantPooling" -> ConstantPooling(g)
      [] name = "EliminateDeadCode" -> EliminateDeadCode(g)
RECURSIVE ApplyPasses(_, _, _)
ApplyPasses(names, k, g) ==
    IF k > Len(names) THEN g
    ELSE ApplyPasses(names, k + 1, ApplyPass(names[k], g))
\* one iteration of the loop of run
Iteration(g, inputs, indices) ==
    ApplyPasses(IterationPasses, 1,
                substituteInputTensorProperties(g, inputs, indices))

\* ------------------------------------------------------ extractOutputShape
\* fatal: one of the two TORCH_INTERNAL_ASSERTs failed.
Fatal == [fatal |-> TRUE, shape |-> UnrankedShape]
Returned(shape) == [fatal |-> FALSE, shape |-> shape]
\* (mutation) the number of consumers of the output is not looked at
extractOutputShapeAnyUses(g) ==
    IF Len(g.outputs) # 1 THEN Fatal
    ELSE LET output == g.outputs[1]
         IN  IF ~IsIntListTyped(output) THEN Fatal
             ELSE IF IsConstant(output)
             THEN Returned(ShapeOfIntList(output[2]))
             ELSE IF kind(output) # "ListConstruct"
             THEN Returned(UnrankedShape)
             ELSE Returned(RankedShape(
                      [j \in 1..Len(output[2]) |-> constant_as_int(output[2][j])]))

extractOutputShape(g) ==
    IF Len(g.outputs) # 1 THEN Fatal
    ELSE LET output == g.outputs[1]
         IN  IF ~IsIntListTyped(output) THEN Fatal
             ELSE IF IsConstant(output)
             THEN Returned(ShapeOfIntList(output[2]))
             ELSE IF kind(output) # "ListConstruct" \/ NumUses(g) # 1
             THEN Returned(UnrankedShape)
             ELSE Returned(RankedShape(
                      [j \in 1..Len(output[2]) |-> constant_as_int(output[2][j])]))


\* ============================================================== the state
VARIABLES
    graph,              \* the graph PropagateShapesOnGraph walks: its nodes
    graphs,             \* the heap of shape compute graphs, by id
    operator_functions, \* the registry: signature -> optional graph id
    lock,               \* the std::mutex: its owner, or NoThread
    pc,                 \* per thread: where it is in its call
    arg,                \* per thread: the arguments of its Register call
    pos,                \* per thread: the node PropagateShapesOnGraph is at
    analyzer,           \* per thread: the SymbolicShapeAnalyzer it runs
    passLog,            \* per thread: the passes its analyzer has run
    firstRegistered,    \* signature -> the graph of the first Register call
                        \* made under it, None before there is one
    derived,            \* node -> the shape run() returned for it in the
                        \* pass under way or last ended, None if it did not
    lastPass            \* registry and output types when the last pass ended

vars == <<graph, graphs, operator_functions, lock, pc, arg, pos, analyzer,
          passLog, firstRegistered, derived, lastPass>>

Threads == 1..NumThreads
NoThread == 0
Signatures == {"A", "B"}

\* A node of the walked graph: maybeSchema() (None when it has none), its
\* inputs, and the TensorType of its output.  An input is a value of the
\* graph's own (from = 0) or the output of the node numbered from.
Node(schema, inputs, out) == [schema |-> schema, inputs |-> inputs, out |-> out]
TensorType(shape, dtype) == [shape |-> shape, dtype |-> dtype]
OwnValue(inp) == [type |-> inp.type, shape |-> inp.shape, ival |-> inp.ival, from |-> 0]
OutputOf(k) == [type |-> "Tensor", shape |-> None, ival |-> None, from |-> k]
\* node_->input(i)->type() and toIValue(node_->input(i)), read when used
NodeInputs(gr, k) ==
    [j \in 1..Len(gr[k].inputs) |->
        LET inp == gr[k].inputs[j]
        IN  IF inp.from = 0
            THEN [type |-> inp.type, shape |-> inp.shape, ival |-> inp.ival]
            ELSE TensorInput(gr[inp.from].out.shape)]
\* TensorType::withSymbolicShapes
withSymbolicShapes(type, shape) == [type EXCEPT !.shape = shape]

\* Graph::copy(): the id of the new graph a thread's analyzer owns
PrivateId(t) == -t
\* (mutation) the analyzer works on the registered graph itself
copyAlias(t, gid) == gid
copy(t, gid) == PrivateId(t)
FreedGraph == Graph(<<>>, <<>>)
NoAnalyzer == [graph_ |-> 0, node_ |-> 0, indices |-> <<>>, i |-> 0,
               source |-> 0, out |-> UnrankedShape]

\* (mutation) no guard waits for the mutex
LockNeverWaits == TRUE
\* std::lock_guard<std::mutex> guard(lock) can be constructed
LockAvailable == lock = NoThread

\* ------------------------------------------------------ RegisterOperatorShapeFunction
NoArguments == [schema |-> None, graph |-> 0]

\* A thread calls RegisterOperatorShapeFunction(n, graph): n's schema (None
\* when it has none) and the id of the graph it passes.
CallRegister(t, schema, gid) ==
    /\ pc[t] = "idle"
    /\ pc' = [pc EXCEPT ![t] = "reg_lock"]
    /\ arg' = [arg EXCEPT ![t] = [schema |-> schema, graph |-> gid]]
    /\ UNCHANGED <<graph, graphs, operator_functions, lock, pos, analyzer,
                   passLog, firstRegistered, derived, lastPass>>

\* line 185: the guard takes the mutex
RegisterLock(t) ==
    /\ pc[t] = "reg_lock"
    /\ LockAvailable
    /\ lock' = t
    /\ pc' = [pc EXCEPT ![t] = "reg_body"]
    /\ UNCHANGED <<graph, graphs, operator_functions, arg, pos, analyzer,
                   passLog, firstRegistered, derived, lastPass>>

\* (mutation) a registration replaces the entry of its signature
RegisteredLastWins(functions, schema, gid) ==
    IF ~HasValue(schema) THEN functions
    ELSE [functions EXCEPT ![ValueOf(schema)] = Some(gid)]
\* lines 186-192: the registry after the body of the call
Registered(functions, schema, gid) ==
    IF ~HasValue(schema) THEN functions
    ELSE IF HasValue(functions[ValueOf(schema)]) THEN functions
    ELSE [functions EXCEPT ![ValueOf(schema)] = Some(gid)]

RegisterBody(t) ==
    /\ pc[t] = "reg_body"
    /\ operator_functions' =
          Registered(operator_functions, arg[t].schema, arg[t].graph)
    /\ firstRegistered' =
          IF HasValue(arg[t].schema)
             /\ ~HasValue(firstRegistered[ValueOf(arg[t].schema)])
          THEN [firstRegistered EXCEPT ![ValueOf(arg[t].schema)] = Some(arg[t].graph)]
          ELSE firstRegistered
    /\ pc' = [pc EXCEPT ![t] = "reg_unlock"]
    /\ UNCHANGED <<graph, graphs, lock, arg, pos, analyzer, passLog, derived,
                   lastPass>>

\* line 193: the guard's destructor releases the mutex
RegisterUnlock(t) ==
    /\ pc[t] = "reg_unlock"
    /\ lock' = NoThread
    /\ pc' = [pc EXCEPT ![t] = "idle"]
    /\ arg' = [arg EXCEPT ![t] = NoArguments]
    /\ UNCHANGED <<graph, graphs, operator_functions, pos, analyzer, passLog,
                   firstRegistered, derived, lastPass>>

\* ------------------------------------------------------------ PropagateShapesOnGraph
CallPropagate(t) ==
    /\ pc[t] = "idle"
    /\ pc' = [pc EXCEPT ![t] = "prop_lock"]
    /\ UNCHANGED <<graph, graphs, operator_functions, lock, arg, pos,
                   analyzer, passLog, firstRegistered, derived, lastPass>>

\* line 196
PropagateLock(t) ==
    /\ pc[t] = "prop_lock"
    /\ LockAvailable
    /\ lock' = t
    /\ pc' = [pc EXCEPT ![t] = "prop_loop"]
    /\ pos' = [pos EXCEPT ![t] = 1]
    /\ derived' = [k \in 1..Len(graph) |-> None]
    /\ UNCHANGED <<graph, graphs, operator_functions, arg, analyzer, passLog,
                   firstRegistered, lastPass>>

\* lines 198-199: the node has a schema and the registry holds its signature
HasShapeFunction(n, functions) ==
    /\ HasValue(n.schema)
    /\ HasValue(functions[ValueOf(n.schema)])

\* lines 197-203, a node that is passed over
PropagateSkip(t) ==
    /\ pc[t] = "prop_loop"
    /\ pos[t] <= Len(graph)
    /\ ~HasShapeFunction(graph[pos[t]], operator_functions)
    /\ pos' = [pos EXCEPT ![t] = pos[t] + 1]
    /\ UNCHANGED <<graph, graphs, operator_functions, lock, pc, arg,
                   analyzer, passLog, firstRegistered, derived, lastPass>>

\* lines 200-201, 179, 58-83: the registered graph is looked up and the
\* analyzer constructed on a copy of it
Construct(t) ==
    /\ pc[t] = "prop_loop"
    /\ pos[t] <= Len(graph)
    /\ HasShapeFunction(graph[pos[t]], operator_functions)
    /\ LET gid == ValueOf(operator_functions[ValueOf(graph[pos[t]].schema)])
           own == copy(t, gid)
           st == SymbolicShapeAnalyzer(NodeInputs(graph, pos[t]), graphs[gid])
       IN  /\ graphs' = [graphs EXCEPT ![own] = st.graph]
           /\ analyzer' = [analyzer EXCEPT ![t] =
                  [graph_ |-> own, node_ |-> pos[t], indices |-> st.indices,
                   i |-> 0, source |-> gid, out |-> UnrankedShape]]
           /\ pc' = [pc EXCEPT ![t] = IF st.fatal THEN "throw" ELSE "run"]
    /\ passLog' = [passLog EXCEPT ![t] = <<>>]
    /\ UNCHANGED <<graph, operator_functions, lock, arg, pos,
                   firstRegistered, derived, lastPass>>

\* lines 88-96: one iteration of run's loop
RunIteration(t) ==
    /\ pc[t] = "run"
    /\ analyzer[t].i < num_optimization_iters
    /\ graphs' = [graphs EXCEPT ![analyzer[t].graph_] =
          Iteration(graphs[analyzer[t].graph_],
                    NodeInputs(graph, analyzer[t].node_), analyzer[t].indices)]
    /\ analyzer' = [analyzer EXCEPT ![t].i = analyzer[t].i + 1]
    /\ passLog' = [passLog EXCEPT ![t] =
          passLog[t] \o <<"substituteInputTensorProperties">> \o IterationPasses]
    /\ UNCHANGED <<graph, operator_functions, lock, pc, arg, pos,
                   firstRegistered, derived, lastPass>>

\* lines 97-99: after the loop, the last two passes and extractOutputShape
RunFinish(t) ==
    /\ pc[t] = "run"
    /\ analyzer[t].i >= num_optimization_iters
    /\ LET final == ApplyPasses(FinalPasses, 1, graphs[analyzer[t].graph_])
           res == extractOutputShape(final)
       IN  /\ graphs' = [graphs EXCEPT ![analyzer[t].graph_] = final]
           /\ analyzer' = [analyzer EXCEPT ![t].out = res.shape]
           /\ pc' = [pc EXCEPT ![t] = IF res.fatal THEN "throw" ELSE "set_type"]
           /\ derived' = IF res.fatal THEN derived
                         ELSE [derived EXCEPT ![analyzer[t].node_] = Some(res.shape)]
    /\ passLog' = [passLog EXCEPT ![t] =
          passLog[t] \o FinalPasses \o <<"extractOutputShape">>]
    /\ UNCHANGED <<graph, operator_functions, lock, arg, pos,
                   firstRegistered, lastPass>>

\* (mutation) the node's output gets a new type that has only the shape
SetTypeFresh(t) ==
    /\ pc[t] = "set_type"
    /\ graph' = [graph EXCEPT ![analyzer[t].node_].out =
          TensorType(analyzer[t].out, "float")]
    /\ graphs' = [graphs EXCEPT ![PrivateId(t)] = FreedGraph]
    /\ analyzer' = [analyzer EXCEPT ![t] = NoAnalyzer]
    /\ pos' = [pos EXCEPT ![t] = pos[t] + 1]
    /\ pc' = [pc EXCEPT ![t] = "prop_loop"]
    /\ passLog' = [passLog EXCEPT ![t] = <<>>]
    /\ UNCHANGED <<operator_functions, lock, arg, firstRegistered, derived,
                   lastPass>>
\* lines 180-181: the node's output type gets the shape; the analyzer and
\* its graph are destroyed
SetType(t) ==
    /\ pc[t] = "set_type"
    /\ graph' = [graph EXCEPT ![analyzer[t].node_].out =
          withSymbolicShapes(graph[analyzer[t].node_].out, analyzer[t].out)]
    /\ graphs' = [graphs EXCEPT ![PrivateId(t)] = FreedGraph]
    /\ analyzer' = [analyzer EXCEPT ![t] = NoAnalyzer]
    /\ pos' = [pos EXCEPT ![t] = pos[t] + 1]
    /\ pc' = [pc EXCEPT ![t] = "prop_loop"]
    /\ passLog' = [passLog EXCEPT ![t] = <<>>]
    /\ UNCHANGED <<operator_functions, lock, arg, firstRegistered, derived,
                   lastPass>>

\* what the registry and the output types are when a pass ends
PassRecord(how) ==
    Some([functions |-> operator_functions,
          types |-> [k \in 1..Len(graph) |-> graph[k].out],
          ended |-> how])

\* A failed TORCH_INTERNAL_ASSERT throws c10::Error out of
\* PropagateShapesOnGraph: the analyzer is destroyed and the guard releases
\* the mutex on the way.
Throw(t) ==
    /\ pc[t] = "throw"
    /\ graphs' = [graphs EXCEPT ![PrivateId(t)] = FreedGraph]
    /\ analyzer' = [analyzer EXCEPT ![t] = NoAnalyzer]
    /\ lock' = NoThread
    /\ pc' = [pc EXCEPT ![t] = "idle"]
    /\ lastPass' = PassRecord("raised")
    /\ pos' = [pos EXCEPT ![t] = 0]
    /\ passLog' = [passLog EXCEPT ![t] = <<>>]
    /\ UNCHANGED <<graph, operator_functions, arg, firstRegistered, derived>>

\* lines 197, 205: past the last node, the guard releases the mutex
PropagateUnlock(t) ==
    /\ pc[t] = "prop_loop"
    /\ pos[t] > Len(graph)
    /\ lock' = NoThread
    /\ pc' = [pc EXCEPT ![t] = "idle"]
    /\ lastPass' = PassRecord("returned")
    /\ pos' = [pos EXCEPT ![t] = 0]
    /\ UNCHANGED <<graph, graphs, operator_functions, arg, analyzer, passLog,
                   firstRegistered, derived>>

\* ------------------------------------------------------- the shape programs
\* The programs take a tensor (input 1, seen as its sizes) and an int
\* (input 2).  They never write to an input list.
X == ParamList(1)
N == ParamInt(2)
IndexConstants == (0 - (MaxRank + 1))..MaxRank

RECURSIVE NestedLoop(_)
NestedLoop(d) ==
    IF d = 0 THEN LenOf(X) ELSE Loop(NestedLoop(d - 1), Constant(0), Constant(1))

IntAtoms ==
    {Constant(3), LenOf(X), N, GetItem(X, N)}
        \cup {GetItem(X, Constant(k)) : k \in IndexConstants}
IntCompounds ==
    {Add(a, Constant(1)) : a \in IntAtoms} \cup
    { GetItem(X, Add(LenOf(X), Constant(-1))),
      GetItem(X, Add(N, Constant(-1))),
      Loop(LenOf(X), Constant(0), Constant(1)),
      Loop(N, Constant(1), GetItem(X, Constant(0))),
      Loop(Loop(LenOf(X), Constant(0), Constant(1)), Constant(0),
           GetItem(X, Constant(-1))),
      NestedLoop(num_optimization_iters - 1),
      NestedLoop(num_optimization_iters),
      NestedLoop(num_optimization_iters + 1),
      TupleIndex(TupleConstruct(<<LenOf(X), GetItem(X, Constant(0))>>), 1),
      GetItem(ListConstruct(<<Constant(3), GetItem(X, Constant(-1))>>), N),
      LenOf(ListConstruct(<<N, GetItem(X, N)>>)),
      LenOf(Slice(X, 1)),
      GetItem(Slice(X, 1), Constant(0)) }
\* lists built in the program, which a consumer may also read or write
LocalLists ==
    { ListConstruct(<<GetItem(X, Constant(0)), GetItem(X, Constant(1))>>),
      ListConstruct(<<Constant(3), Add(GetItem(X, Constant(-1)), Constant(1))>>) }
ListOutputs ==
    {ListConstruct(<<a>>) : a \in IntAtoms \cup IntCompounds} \cup LocalLists \cup
    { ListConstruct(<<>>),
      ListConstruct(<<GetItem(X, Constant(1)), GetItem(X, Constant(0))>>),
      ListAppend(ListConstruct(<<GetItem(X, Constant(0))>>), LenOf(X)),
      ConstantList(<<1, 2>>),
      Slice(X, 1),
      X }
\* programs that break the contract: an int output, two outputs, none
Malformed ==
    {Graph(<<LenOf(X)>>, <<>>), Graph(<<X, X>>, <<>>), Graph(<<>>, <<>>)}
\* the list [1, 2, x[2] + 1, x[3]], and negative indices into a rank of 4
ExampleLists ==
    { ListConstruct(<<Constant(1), Constant(2),
                      Add(GetItem(X, Constant(2)), Constant(1)),
                      GetItem(X, Constant(3))>>),
      ListConstruct(<<GetItem(X, Constant(-1)), GetItem(X, Constant(-5))>>) }
Programs ==
    {Graph(<<l>>, <<>>) : l \in ListOutputs \cup ExampleLists} \cup
    {Graph(<<l>>, <<"print">>) : l \in ExampleLists} \cup
    {Graph(<<l>>, <<u>>) : l \in LocalLists, u \in {"print", "len", "mutate"}} \cup
    {Graph(<<X>>, <<"print">>)} \cup Malformed

\* the graphs the callers of RegisterOperatorShapeFunction hold, by id
CallerGraphs ==
    << Graph(<<ListConstruct(<<Constant(3),
                 Add(GetItem(X, Constant(-1)), Constant(1))>>)>>, <<>>),
       Graph(<<ListConstruct(<<LenOf(X), GetItem(X, N)>>)>>, <<>>),
       Graph(<<X, X>>, <<>>) >>
GraphIds == 1..Len(CallerGraphs)
Heap(first) ==
    [id \in GraphIds \cup {PrivateId(t) : t \in Threads} |->
        IF id = 1 THEN first
        ELSE IF id \in GraphIds THEN CallerGraphs[id] ELSE FreedGraph]

\* ------------------------------------------------------- the analysed inputs
DimOptions == {None} \cup {Some(v) : v \in 1..MaxDim}
\* a tensor of rank 4 of which only the last two extents are known
ExampleShape == RankedShape(<<None, None, Some(5), Some(7)>>)
SymbolicShapes ==
    {UnrankedShape, ExampleShape} \cup
    {RankedShape(d) : d \in UNION {[1..r -> DimOptions] : r \in 0..MaxRank}}
IntValues == 0..MaxDim
SecondInputs ==
    {OtherInput(None), TensorListInput} \cup {OtherInput(Some(v)) : v \in IntValues}

\* the graph walked by the concurrent callers
TargetGraph ==
    << Node(Some("A"),
            <<OwnValue(TensorInput(RankedShape(<<None, Some(2)>>))),
              OwnValue(OtherInput(Some(1)))>>,
            TensorType(UnrankedShape, "float")),
       Node(Some("B"),
            <<OutputOf(1), OwnValue(OtherInput(None))>>,
            TensorType(UnrankedShape, "float")),
       Node(None,
            <<OutputOf(2), OwnValue(OtherInput(Some(0)))>>,
            TensorType(RankedShape(<<Some(1)>>), "int")),
       Node(Some("A"),
            <<OwnValue(TensorInput(RankedShape(<<Some(2), Some(1)>>))),
              OwnValue(OtherInput(Some(0)))>>,
            TensorType(RankedShape(<<None>>), "int")) >>

\* the output shape of the single analysed node before the analysis
InitialOutShape == RankedShape(<<None, None, None, None, None>>)

\* ------------------------------------------------------------ specifications
InitCommon ==
    /\ arg = [t \in Threads |-> NoArguments]
    /\ analyzer = [t \in Threads |-> NoAnalyzer]
    /\ passLog = [t \in Threads |-> <<>>]
    /\ lastPass = None

\* Concurrent callers: an empty registry, the mutex free, nobody in a call.
Init ==
    /\ InitCommon
    /\ graph = TargetGraph
    /\ graphs = Heap(CallerGraphs[1])
    /\ operator_functions = [s \in Signatures |-> None]
    /\ firstRegistered = [s \in Signatures |-> None]
    /\ lock = NoThread
    /\ pc = [t \in Threads |-> "idle"]
    /\ pos = [t \in Threads |-> 0]
    /\ derived = [k \in 1..Len(graph) |-> None]

Next ==
    \E t \in Threads :
        \/ \E schema \in {None} \cup {Some(sig) : sig \in Signatures},
              gid \in GraphIds : CallRegister(t, schema, gid)
        \/ RegisterLock(t)
        \/ RegisterBody(t)
        \/ RegisterUnlock(t)
        \/ CallPropagate(t)
        \/ PropagateLock(t)
        \/ PropagateSkip(t)
        \/ Construct(t)
        \/ RunIteration(t)
        \/ RunFinish(t)
        \/ SetType(t)
        \/ Throw(t)
        \/ PropagateUnlock(t)

Spec == Init /\ [][Next]_vars

\* One pass over a graph of one node: thread 1 has just taken the mutex in
\* PropagateShapesOnGraph; the node's inputs and the program registered for
\* its signature range over the bounded sets above.
InitAnalyzer ==
    /\ InitCommon
    /\ \E program \in Programs, shape \in SymbolicShapes, second \in SecondInputs,
          schema \in {None, Some("A"), Some("B")} :
          /\ schema # Some("A") =>
                /\ program = Graph(<<X>>, <<>>)
                /\ shape = UnrankedShape
                /\ second = OtherInput(None)
          /\ graph = << Node(schema,
                             <<OwnValue(TensorInput(shape)), OwnValue(second)>>,
                             TensorType(InitialOutShape, "float")) >>
          /\ graphs = Heap(program)
    /\ operator_functions = [s \in Signatures |-> IF s = "A" THEN Some(1) ELSE None]
    /\ firstRegistered = operator_functions
    /\ lock = 1
    /\ pc = [t \in Threads |-> IF t = 1 THEN "prop_loop" ELSE "idle"]
    /\ pos = [t \in Threads |-> IF t = 1 THEN 1 ELSE 0]
    /\ derived = [k \in 1..Len(graph) |-> None]

NextAnalyzer ==
    \/ PropagateSkip(1)
    \/ Construct(1)
    \/ RunIteration(1)
    \/ RunFinish(1)
    \/ SetType(1)
    \/ Throw(1)
    \/ PropagateUnlock(1)

SpecAnalyzer == InitAnalyzer /\ [][NextAnalyzer]_vars

\* ================================================================ properties
\* In SpecAnalyzer thread 1 analyses node 1 with the program registered
\* under "A", graph 1 of the heap.
TheInputs == NodeInputs(graph, 1)
TheProgram == graphs[1]
TheResult == analyzer[1].out
\* run() has returned a shape that is about to be written
Returning == pc[1] = "set_type"

\* The run-time inputs a description of the node's inputs allows.
RuntimeSizes(shape) ==
    IF ~HasValue(shape)
    THEN UNION {[1..r -> 1..MaxDim] : r \in 0..MaxRank}
    ELSE LET dims == ValueOf(shape)
             sizes == (1..MaxDim) \cup
                      {static_size(dims[j]) : j \in {i \in 1..Len(dims) : is_static(dims[i])}}
         IN  {d \in [1..Len(dims) -> sizes] :
                 \A j \in 1..Len(dims) : is_static(dims[j]) => d[j] = static_size(dims[j])}
RuntimeInts(inp) == IF HasValue(inp.ival) THEN {ValueOf(inp.ival)} ELSE IntValues
RuntimeInputs(inputs) ==
    {<<x, n>> : x \in RuntimeSizes(inputs[1].shape), n \in RuntimeInts(inputs[2])}

\* shape says nothing false about the list truth
AgreesWith(shape, truth) ==
    HasValue(shape) =>
        /\ Len(ValueOf(shape)) = Len(truth)
        /\ \A j \in 1..Len(ValueOf(shape)) :
              is_static(ValueOf(shape)[j]) => static_size(ValueOf(shape)[j]) = truth[j]

AllTensorsConcrete ==
    \A j \in 1..Len(TheInputs) :
        TheInputs[j].type = "Tensor" => isComplete(TheInputs[j].shape)
AllOthersKnown ==
    \A j \in 1..Len(TheInputs) :
        TheInputs[j].type # "Tensor" => HasValue(TheInputs[j].ival)
\* how deep loops nest in one another's trip counts
RECURSIVE LoopDepth(_)
LoopDepth(e) ==
    CASE kind(e) \in {"ParamList", "ParamInt", "Constant", "ConstantList"} -> 0
      [] kind(e) \in {"len", "slice", "TupleIndex"} -> LoopDepth(e[2])
      [] kind(e) \in {"__getitem__", "add", "append"} ->
            IF LoopDepth(e[2]) > LoopDepth(e[3])
            THEN LoopDepth(e[2]) ELSE LoopDepth(e[3])
      [] kind(e) \in {"ListConstruct", "TupleConstruct"} ->
            IF e[2] = <<>> THEN 0
            ELSE LET ds == {LoopDepth(e[2][j]) : j \in 1..Len(e[2])}
                 IN  CHOOSE d \in ds : \A o \in ds : o <= d
      [] kind(e) = "Loop" ->
            LET ds == {1 + LoopDepth(e[2]), LoopDepth(e[3]), LoopDepth(e[4])}
            IN  CHOOSE d \in ds : \A o \in ds : o <= d
HasWriter(g) == \E u \in 1..Len(g.users) : g.users[u] = "mutate"

\* C4 as stated (full-concrete fast path): if every input tensor has a fully
\* concrete shape, the shape run() returns is fully concrete and is the
\* list the shape program computes on those inputs (where it computes one).
C4_AsStated ==
    (Returning /\ AllTensorsConcrete) =>
        \A env \in RuntimeInputs(TheInputs) :
            LET truth == EvalGraph(TheProgram, env)
            IN  HasValue(truth) =>
                    /\ isComplete(TheResult)
                    /\ TheResult = ShapeOfIntList(ValueOf(truth))

\* C4 as amended: if every input tensor has a fully concrete shape and the
\* value of every other input is known, and the program runs on them without
\* raising, has no writer to its output list and nests loops less deep than
\* the number of iterations of run, then the shape run() returns is fully
\* concrete and is the list the program computes.
C4_FullConcrete ==
    (/\ Returning
     /\ AllTensorsConcrete
     /\ AllOthersKnown
     /\ ~HasWriter(TheProgram)
     /\ LoopDepth(TheProgram.outputs[1]) < num_optimization_iters) =>
        \A env \in RuntimeInputs(TheInputs) :
            LET truth == EvalGraph(TheProgram, env)
            IN  HasValue(truth) =>
                    /\ isComplete(TheResult)
                    /\ TheResult = ShapeOfIntList(ValueOf(truth))

\* every input known, a program that reads both, loops and indexes, and a
\* fully concrete result
C4_Witness ==
    /\ Returning
    /\ AllTensorsConcrete
    /\ AllOthersKnown
    /\ TheProgram = Graph(<<ListConstruct(
           <<Loop(N, Constant(1), GetItem(X, Constant(0)))>>)>>, <<>>)
    /\ TheInputs[1].shape = RankedShape(<<Some(2), Some(1)>>)
    /\ TheInputs[2].ival = Some(2)
    /\ TheResult = ShapeOfIntList(<<5>>)

\* ---------------------------------------------------------------------- C7
\* What the claim says a program becomes when the uses of the tensor input
\* X of rank r and dimensions dims are substituted.
RECURSIVE C7_Claimed(_, _, _)
C7_Claimed(e, r, dims) ==
    IF e = LenOf(X) THEN Constant(r)
    ELSE IF /\ kind(e) = "__getitem__"
            /\ e[2] = X
            /\ kind(e[3]) = "Constant"
            /\ LET k == e[3][2]
                   kn == IF k >= 0 THEN k ELSE k + r
               IN  kn \in 0..(r - 1) /\ HasValue(dims[kn + 1])
    THEN LET k == e[3][2]
             kn == IF k >= 0 THEN k ELSE k + r
         IN  Constant(ValueOf(dims[kn + 1]))
    ELSE MapChildren(e, LAMBDA ch : C7_Claimed(ch, r, dims))
C7_ClaimedGraph(g, shape) ==
    MapOutputs(g, LAMBDA e : C7_Claimed(e, Len(ValueOf(shape)), ValueOf(shape)))
\* the graph the analyzer is rewriting
TheCopy == graphs[analyzer[1].graph_]
Running == pc[1] = "run"

\* C7 (property substitution): on the graph the analyzer holds at any point
\* of run, substituteTensorProperties for a tracked input of rank r turns
\* each len of it into r and each index k into it, k constant, into dims[k']
\* exactly when k' = (k or k + r) lies in [0, r) and dims[k'] is known, and
\* changes nothing else; on an input of rank 0 only len is substituted.
C7_Substitution ==
    Running =>
        /\ \A j \in 1..Len(analyzer[1].indices) :
              analyzer[1].indices[j] = 1
              /\ substituteTensorProperties(TheCopy, TheInputs, 1)
                    = C7_ClaimedGraph(TheCopy, TheInputs[1].shape)
        /\ substituteTensorProperties(
                TheCopy, <<TensorInput(RankedShape(<<>>)), TheInputs[2]>>, 1)
              = MapOutputs(TheCopy, LAMBDA e :
                    replaceAllUsesWith(e, LenOf(X), Constant(0)))

\* index -1 into rank 4 has become element 3 (the extent 7); index -5 into
\* rank 4 is still an index
C7_Witness ==
    /\ Running
    /\ analyzer[1].i = 1
    /\ analyzer[1].indices = <<1>>
    /\ TheInputs[1].shape = ExampleShape
    /\ TheCopy.outputs = <<ListConstruct(<<Constant(7), GetItem(X, Constant(-5))>>)>>

\* ---------------------------------------------------------------------- C8
\* C8 (output extraction): the shape run() returns is, by the output of the
\* simplified program: the list itself when it is a constant; of the rank
\* of a ListConstruct with a single consumer, dimension j known exactly when
\* element j is a constant, and then of that value; of unknown rank in
\* every other case.
C8_Extraction ==
    Returning =>
        LET output == TheCopy.outputs[1]
        IN  IF IsConstant(output)
            THEN TheResult = RankedShape([j \in 1..Len(output[2]) |-> Some(output[2][j])])
            ELSE IF kind(output) = "ListConstruct" /\ NumUses(TheCopy) = 1
            THEN /\ HasValue(TheResult)
                 /\ Len(ValueOf(TheResult)) = Len(output[2])
                 /\ \A j \in 1..Len(output[2]) :
                       /\ HasValue(ValueOf(TheResult)[j])
                             <=> kind(output[2][j]) = "Constant"
                       /\ kind(output[2][j]) = "Constant"
                             => ValueOf(TheResult)[j] = Some(output[2][j][2])
            ELSE TheResult = UnrankedShape

\* a list construction with a second consumer: unknown rank
C8_Witness ==
    /\ Returning
    /\ kind(TheCopy.outputs[1]) = "ListConstruct"
    /\ NumUses(TheCopy) = 2
    /\ TheResult = UnrankedShape

\* ---------------------------------------------------------------------- C9
C9_Round ==
    <<"substituteInputTensorProperties", "LowerSimpleTuples",
      "RemoveListMutation", "UnrollConstantLoops", "ConstantPropagation",
      "PeepholeOptimize", "ConstantPropagation">>
C9_Rounds(n) == [j \in 1..(7 * n) |-> C9_Round[((j - 1) % 7) + 1]]
C9_WholeRun ==
    C9_Rounds(6) \o <<"ConstantPooling", "EliminateDeadCode", "extractOutputShape">>
\* run() has ended, by a return or by a failed assertion of extractOutputShape
RunEnded == pc[1] = "set_type" \/ (pc[1] = "throw" /\ passLog[1] # <<>>)
C9_Log ==
    /\ Running =>
          /\ analyzer[1].i <= 6
          /\ passLog[1] = C9_Rounds(analyzer[1].i)
    /\ RunEnded => passLog[1] = C9_WholeRun

\* a step of a run in progress is one more round or the end of the run
C9_Step ==
    Running =>
        \/ Running' /\ analyzer'[1].i = analyzer[1].i + 1
        \/ RunEnded' /\ analyzer[1].i = 6 /\ analyzer'[1].i = 6

PresentsTensorList == \E j \in 1..Len(TheInputs) : TheInputs[j].type = "TensorList"
NotOneIntListOutput(g) ==
    Len(g.outputs) # 1 \/ ~IsIntListTyped(g.outputs[1])
TheInitialType == TensorType(InitialOutShape, "float")
TheInitialRegistry == [s \in Signatures |-> IF s = "A" THEN Some(1) ELSE None]
\* the analysis of the node has ended, in a shape or in an error
AnalysisEnded == pc[1] \in {"set_type", "throw"}
\* the pass is over and ended in an error
PassRaised == HasValue(lastPass) /\ ValueOf(lastPass).ended = "raised"

C10_Ends ==
    /\ AnalysisEnded =>
          (pc[1] = "throw" <=> (PresentsTensorList \/ NotOneIntListOutput(TheCopy)))
    /\ (pc[1] = "throw" \/ PassRaised) =>
          /\ graph[1].out = TheInitialType
          /\ operator_functions = TheInitialRegistry
          /\ derived[1] = None

\* C10 (fatal precondition violations): the analysis of a registered node
\* ends in the fatal error exactly when the node presents a List[Tensor]
\* input or the program the analyzer holds at that point has not exactly
\* one output typed List[int]; then,
\* and after the error has left the pass, the node's output type and the
\* registry and its graph are as before; in every other case the analysis
\* ends in a shape.
C10_Fatal == [](C10_Ends) /\ [][graphs'[1] = graphs[1]]_vars

\* the error raised for a List[Tensor] input has left the pass
C10_Witness ==
    /\ PassRaised
    /\ PresentsTensorList
    /\ TheProgram \notin Malformed
    /\ pc[1] = "idle"
    /\ lock = NoThread

\* ---------------------------------------------------------------------- C2
\* the thread is analysing a node
Analysing(t) == pc[t] \in {"run", "set_type"} \/ (pc[t] = "throw" /\ analyzer[t].node_ # 0)
C2_State ==
    /\ operator_functions = firstRegistered
    /\ \A sig \in Signatures :
          HasValue(operator_functions[sig]) =>
              graphs[ValueOf(operator_functions[sig])]
                  = CallerGraphs[ValueOf(firstRegistered[sig])]
    /\ \A t \in Threads :
          Analysing(t) =>
              Some(analyzer[t].source)
                  = firstRegistered[ValueOf(graph[analyzer[t].node_].schema)]
C2_Step ==
    /\ \A sig \in Signatures :
          HasValue(operator_functions[sig]) =>
              operator_functions'[sig] = operator_functions[sig]
    /\ \A t \in Threads :
          pc[t] = "reg_body" /\ pc'[t] # "reg_body" /\ ~HasValue(arg[t].schema)
              => operator_functions' = operator_functions

\* C2 (registry first-write-wins): every signature in operator_functions
\* maps to the graph of the first registration made under it, and a
\* signature maps to nothing before there is one; no step replaces or
\* removes an entry; the registration of a node without a schema leaves
\* the registry as it is; the graph an analyzer was constructed from is
\* the first-registered one of its node's signature.
C2_FirstWriteWins == [](C2_State) /\ [][C2_Step]_vars

\* a second registration under "A", of another graph, has run its body
C2_Witness ==
    \E t \in Threads :
        /\ pc[t] = "reg_unlock"
        /\ arg[t].schema = Some("A")
        /\ HasValue(operator_functions["A"])
        /\ operator_functions["A"] # Some(arg[t].graph)

\* ---------------------------------------------------------------------- C3
InRegistration(t) == pc[t] \in {"reg_body", "reg_unlock"}
InTraversal(t) == pc[t] \in {"prop_loop", "run", "set_type", "throw"}
InCriticalSection(t) == InRegistration(t) \/ InTraversal(t)
C3_State ==
    /\ \A t1, t2 \in Threads :
          InCriticalSection(t1) /\ InCriticalSection(t2) => t1 = t2
    /\ \A t \in Threads : InCriticalSection(t) <=> lock = t
C3_Step ==
    /\ graph' # graph => lock # NoThread /\ lock' = lock
    /\ (\E t \in Threads : InTraversal(t)) =>
          operator_functions' = operator_functions
    /\ \A t \in Threads :
          InTraversal(t) /\ InTraversal(t)' => lock' = t

\* C3 (lock serialization): at most one thread is inside a registration or
\* a traversal, and it is the owner of the lock from its first step inside
\* to its last, through every node of a traversal; the registry does not
\* change while a traversal is under way; every change of an output type
\* of the walked graph is made with the lock held.
C3_Serialized == [](C3_State) /\ [][C3_Step]_vars

\* one thread is in the middle of a traversal, past its first node, while
\* another waits to register
C3_Witness ==
    \E t1, t2 \in Threads :
        /\ pc[t1] = "run"
        /\ analyzer[t1].node_ > 1
        /\ pc[t2] = "reg_lock"
        /\ lock = t1

\* ---------------------------------------------------------------------- C5
\* the pass of the thread is about to end, by a return or by the error
PassReturning(t) == pc[t] = "prop_loop" /\ pos[t] > Len(graph)
PassEnding(t) == PassReturning(t) \/ pc[t] = "throw"
OutputTypes == [k \in 1..Len(graph) |-> graph[k].out]
SameRegistryAsLastPass ==
    HasValue(lastPass) /\ ValueOf(lastPass).functions = operator_functions

\* C5 (idempotence): the graphs the callers registered are never changed
\* by an analysis; a pass that follows a pass made with the same registry
\* derives for each node the shape the earlier pass left on it, and ends
\* with every output type as the earlier pass left it.
C5_Idempotence ==
    /\ \A id \in GraphIds : graphs[id] = CallerGraphs[id]
    /\ \A t \in Threads :
          /\ pc[t] = "set_type" /\ SameRegistryAsLastPass
                => analyzer[t].out
                      = ValueOf(lastPass).types[analyzer[t].node_].shape
          /\ PassEnding(t) /\ SameRegistryAsLastPass
                => OutputTypes = ValueOf(lastPass).types

\* a second pass, with both signatures registered as in the first, returns
C5_Witness ==
    \E t \in Threads :
        /\ PassReturning(t)
        /\ SameRegistryAsLastPass
        /\ \A sig \in Signatures : HasValue(operator_functions[sig])
        /\ \A k \in {1, 2, 4} : HasValue(derived[k])
        /\ OutputTypes = ValueOf(lastPass).types

\* ---------------------------------------------------------------------- C6
\* the output type of node k when the pass under way began
TypeBefore(k) ==
    IF HasValue(lastPass) THEN ValueOf(lastPass).types[k] ELSE TargetGraph[k].out
Overwritten(k) ==
    /\ HasValue(derived[k])
    /\ graph[k].out = [TypeBefore(k) EXCEPT !.shape = ValueOf(derived[k])]
Untouched(k) ==
    /\ ~HasValue(derived[k])
    /\ graph[k].out = TypeBefore(k)
SameStructure ==
    /\ Len(graph) = Len(TargetGraph)
    /\ \A k \in 1..Len(graph) :
          /\ graph[k].schema = TargetGraph[k].schema
          /\ graph[k].inputs = TargetGraph[k].inputs

\* C6 as stated: when a pass ends, every node whose signature is in the
\* registry, but one whose own analysis ended in the error, has its output
\* shape overwritten with the shape derived for it.
C6_AsStated ==
    \A t \in Threads :
        PassEnding(t) =>
            \A k \in 1..Len(graph) :
                /\ HasShapeFunction(graph[k], operator_functions)
                /\ ~(pc[t] = "throw" /\ k = analyzer[t].node_)
                => Overwritten(k)

C6_State ==
    /\ SameStructure
    /\ \A t \in Threads :
          /\ PassReturning(t) =>
                \A k \in 1..Len(graph) :
                    IF HasShapeFunction(graph[k], operator_functions)
                    THEN Overwritten(k) ELSE Untouched(k)
          /\ pc[t] = "throw" =>
                \A k \in 1..Len(graph) :
                    IF /\ HasShapeFunction(graph[k], operator_functions)
                       /\ k < analyzer[t].node_
                    THEN Overwritten(k) ELSE Untouched(k)
C6_Step ==
    \A t \in Threads :
        InTraversal(t) =>
            /\ operator_functions' = operator_functions
            /\ \A id \in GraphIds : graphs'[id] = graphs[id]

\* C6 (frame of PropagateShapesOnGraph): when a pass returns, every node
\* whose signature is in the registry has its output shape overwritten
\* with the shape derived for it and the rest of its output type as
\* before, and every other node has its output type as before; when a
\* pass ends in the error, that holds of the nodes before the failing one,
\* and the failing node and all after it have their output types as
\* before; no step of a pass changes the registry or a registered graph,
\* and the schemas and inputs of the walked graph never change.
C6_Frame == [](C6_State) /\ [][C6_Step]_vars

\* a pass returns having overwritten the shape of node 4, of dtype "int",
\* and having passed over node 2, whose signature is not registered
C6_Witness ==
    \E t \in Threads :
        /\ PassReturning(t)
        /\ HasValue(operator_functions["A"])
        /\ ~HasValue(operator_functions["B"])
        /\ Overwritten(4)
        /\ graph[4].out.dtype = "int"
        /\ graph[4].out # TargetGraph[4].out
        /\ Untouched(2)
        /\ Untouched(3)

====
